---- MODULE Spec2Model ----
(***************************************************************************)
(* Model of telemetry/gparser/parser.py: the get_parser factory, the       *)
(* Parser class hierarchy and the staging of the fetched artifact in       *)
(* FILE_DIR.  Python strings are sequences of one-character strings, so    *)
(* that splitting, regular-expression matching and suffix removal are      *)
(* computed as the code computes them.                                     *)
(***************************************************************************)
EXTENDS Integers, Sequences, FiniteSets, TLC

(***************************************************************************)
(* Characters and str methods                                              *)
(***************************************************************************)
LowerCase == <<"a","b","c","d","e","f","g","h","i","j","k","l","m","n","o","p","q","r","s","t","u","v","w","x","y","z">>
UpperCase == <<"A","B","C","D","E","F","G","H","I","J","K","L","M","N","O","P","Q","R","S","T","U","V","W","X","Y","Z">>
Digits == <<"0","1","2","3","4","5","6","7","8","9">>

Range(f) == {f[x] : x \in DOMAIN f}

UpperChars == Range(UpperCase)
LowerChars == Range(LowerCase)
DigitChars == Range(Digits)
\* \w of the re module, on the ASCII characters the inputs use
WordChars == UpperChars \cup LowerChars \cup DigitChars \cup {"_"}
AlnumDashChars == UpperChars \cup LowerChars \cup DigitChars \cup {"-"}

IsUpper(c) == c \in UpperChars
IsLower(c) == c \in LowerChars
IsDigit(c) == c \in DigitChars
\* [a-zA-Z0-9-]
IsAlnumDash(c) == c \in AlnumDashChars
\* \s and the characters str.strip() removes
IsSpace(c) == c \in {" ", "\t"}

IndexIn(c, alphabet) == CHOOSE k \in DOMAIN alphabet : alphabet[k] = c
ToLowerChar(c) == IF IsUpper(c) THEN LowerCase[IndexIn(c, UpperCase)] ELSE c
ToUpperChar(c) == IF IsLower(c) THEN UpperCase[IndexIn(c, LowerCase)] ELSE c

\* s[a:b] of Python with 1-based inclusive bounds a..b
Slice(s, a, b) == IF a > b THEN <<>> ELSE SubSeq(s, a, b)
\* s[a:] with a 1-based
From(s, a) == Slice(s, a, Len(s))

Lower(s) == [k \in 1..Len(s) |-> ToLowerChar(s[k])]
\* str.capitalize()
Capitalize(s) == [k \in 1..Len(s) |-> IF k = 1 THEN ToUpperChar(s[k]) ELSE ToLowerChar(s[k])]

\* lit occurs in s starting at position i
HasAt(s, i, lit) ==
    /\ i >= 1
    /\ i + Len(lit) - 1 <= Len(s)
    /\ \A k \in 1..Len(lit) : s[i + k - 1] = lit[k]

\* x in s
Contains(s, lit) == \E i \in 1..(Len(s) + 1) : HasAt(s, i, lit)
\* s.endswith(suffix)
EndsWith(s, suffix) == HasAt(s, Len(s) - Len(suffix) + 1, suffix)

\* position of the first occurrence of lit in s at or after i, 0 if none
Find(s, lit, i) ==
    IF \E k \in i..(Len(s) + 1) : HasAt(s, k, lit)
    THEN CHOOSE k \in i..(Len(s) + 1) :
             HasAt(s, k, lit) /\ \A m \in i..(k - 1) : ~HasAt(s, m, lit)
    ELSE 0

\* s.split(sep): non-overlapping occurrences left to right, empty pieces kept
RECURSIVE Split(_, _)
\* k: where the first separator starts, 0 if there is none
SplitAt(s, sep, k) ==
    IF k = 0 THEN <<s>>
    ELSE <<Slice(s, 1, k - 1)>> \o Split(From(s, k + Len(sep)), sep)

Split(s, sep) == SplitAt(s, sep, Find(s, sep, 1))

\* s.replace(old, new) for a one-character old
ReplaceChar(s, old, new) == [k \in 1..Len(s) |-> IF s[k] = old THEN new ELSE s[k]]

\* s.strip()
Strip(s) ==
    LET keep == {k \in 1..Len(s) : ~IsSpace(s[k])}
    IN  IF keep = {} THEN <<>>
        ELSE Slice(s, CHOOSE a \in keep : \A m \in keep : a <= m,
                      CHOOSE b \in keep : \A m \in keep : b >= m)

\* remove_suffix(input_string, suffix)
remove_suffix(input_string, suffix) ==
    IF suffix # <<>> /\ EndsWith(input_string, suffix)
    THEN Slice(input_string, 1, Len(input_string) - Len(suffix))
    ELSE input_string

\* the end of the longest run of characters of the class cls that starts at
\* i (i - 1 when s[i] is not in the class)
RunEnd(s, i, cls) ==
    LET stops == {k \in i..Len(s) : s[k] \notin cls}
    IN  IF stops = {} THEN Len(s)
        ELSE (CHOOSE k \in stops : \A m \in stops : k <= m) - 1

(***************************************************************************)
(* Exceptions.  The code raises plain Exception objects told apart by      *)
(* their message; IndexError and FileNotFoundError come from the runtime.  *)
(***************************************************************************)
NoError == "none"
UnsupportedURLShape == "Does not support non multilevel yet!"
UnknownArtifactKind == "Cannot find Parser"
IndexError == "IndexError"
FileNotFoundError == "FileNotFoundError"

(***************************************************************************)
(* urlparse, as far as initialize uses it: scheme, netloc and path         *)
(***************************************************************************)
IsSchemeChar(c) == IsUpper(c) \/ IsLower(c) \/ IsDigit(c) \/ c \in {"+", "-", "."}

\* position of the first character of s at or after i that is in stops,
\* Len(s) + 1 if none
FirstOf(s, i, stops) ==
    LET hits == {k \in i..Len(s) : s[k] \in stops}
    IN  IF hits = {} THEN Len(s) + 1 ELSE CHOOSE k \in hits : \A m \in hits : k <= m

\* path: what is left of the URL after scheme and netloc, up to "?" or "#"
SplitPath(scheme, netloc, tail) ==
    [scheme |-> scheme, netloc |-> netloc,
     path |-> Slice(tail, 1, FirstOf(tail, 1, {"?", "#"}) - 1)]

\* netloc: after "//", up to the next "/", "?" or "#"
SplitNetloc(scheme, rest) ==
    IF HasAt(rest, 1, <<"/","/">>)
    THEN SplitPath(scheme, Slice(rest, 3, FirstOf(rest, 3, {"/", "?", "#"}) - 1),
                   From(rest, FirstOf(rest, 3, {"/", "?", "#"})))
    ELSE SplitPath(scheme, <<>>, rest)

\* scheme: the characters before the first ":", if they form a scheme
SplitScheme(url, colon) ==
    IF /\ colon > 1
       /\ IsUpper(url[1]) \/ IsLower(url[1])
       /\ \A k \in 1..(colon - 1) : IsSchemeChar(url[k])
    THEN SplitNetloc(Lower(Slice(url, 1, colon - 1)), From(url, colon + 1))
    ELSE SplitNetloc(<<>>, url)

urlparse(url) == SplitScheme(url, Find(url, <<":">>, 1))

(***************************************************************************)
(* The classes of the hierarchy, by name (type(self).__name__)             *)
(***************************************************************************)
Dmesg == <<"D","m","e","s","g">>
DmesgError == <<"D","m","e","s","g","E","r","r","o","r">>
DmesgWarning == <<"D","m","e","s","g","W","a","r","n","i","n","g">>
EnumeratedDevs == <<"E","n","u","m","e","r","a","t","e","d","D","e","v","s">>
MissingDevs == <<"M","i","s","s","i","n","g","D","e","v","s">>
PytestFailure == <<"P","y","t","e","s","t","F","a","i","l","u","r","e">>
PytestSkipped == <<"P","y","t","e","s","t","S","k","i","p","p","e","d">>
PytestError == <<"P","y","t","e","s","t","E","r","r","o","r">>
MatlabFailure == <<"M","a","t","l","a","b","F","a","i","l","u","r","e">>
MatlabSkipped == <<"M","a","t","l","a","b","S","k","i","p","p","e","d">>
MatlabError == <<"M","a","t","l","a","b","E","r","r","o","r">>

\* isinstance(self, Dmesg)
IsDmesgClass(cls) == cls \in {Dmesg, DmesgError, DmesgWarning}
\* isinstance(self, xmlParser)
xmlParser(cls) == cls \in {PytestFailure, PytestSkipped, PytestError,
                           MatlabFailure, MatlabSkipped, MatlabError}

(***************************************************************************)
(* get_parser: the rule table.  re.match anchors at the start only, and    *)
(* every pattern begins with ^.* , so a rule matches when its remainder    *)
(* matches somewhere in the URL.                                           *)
(***************************************************************************)
\* '^.*dmesg_[a-zA-Z0-9-]+\.log'
ReDmesg(url) ==
    \E i \in 1..Len(url) :
        /\ HasAt(url, i, <<"d","m","e","s","g","_">>)
        /\ \E j \in (i + 7)..Len(url) :
               /\ HasAt(url, j, <<".","l","o","g">>)
               /\ \A k \in (i + 6)..(j - 1) : IsAlnumDash(url[k])

\* '^.*dmesg_.+err\.log'
ReDmesgErr(url) ==
    \E i \in 1..Len(url) :
        /\ HasAt(url, i, <<"d","m","e","s","g","_">>)
        /\ \E j \in (i + 7)..Len(url) : HasAt(url, j, <<"e","r","r",".","l","o","g">>)

\* '^.*dmesg_.+warn\.log'
ReDmesgWarn(url) ==
    \E i \in 1..Len(url) :
        /\ HasAt(url, i, <<"d","m","e","s","g","_">>)
        /\ \E j \in (i + 7)..Len(url) : HasAt(url, j, <<"w","a","r","n",".","l","o","g">>)

\* '^.*enumerated_devs\.log'
ReEnumerated(url) == Contains(url, <<"e","n","u","m","e","r","a","t","e","d","_","d","e","v","s",".","l","o","g">>)

\* '^.*missing_devs\.log'
ReMissing(url) == Contains(url, <<"m","i","s","s","i","n","g","_","d","e","v","s",".","l","o","g">>)

\* '^.*pyadi-iio.*\.xml'
RePytest(url) ==
    \E i \in 1..Len(url) :
        /\ HasAt(url, i, <<"p","y","a","d","i","-","i","i","o">>)
        /\ \E j \in (i + 9)..Len(url) : HasAt(url, j, <<".","x","m","l">>)

\* '^.*HWTestResults\.xml'
ReMatlab(url) == Contains(url, <<"H","W","T","e","s","t","R","e","s","u","l","t","s",".","x","m","l">>)

\* the dict `parsers` in insertion order, each pattern applied to url
parsers(url) ==
    << [match |-> ReDmesg(url),      parser |-> <<Dmesg>>],
       [match |-> ReDmesgErr(url),   parser |-> <<DmesgError>>],
       [match |-> ReDmesgWarn(url),  parser |-> <<DmesgWarning>>],
       [match |-> ReEnumerated(url), parser |-> <<EnumeratedDevs>>],
       [match |-> ReMissing(url),    parser |-> <<MissingDevs>>],
       [match |-> RePytest(url),     parser |-> <<PytestFailure, PytestSkipped, PytestError>>],
       [match |-> ReMatlab(url),     parser |-> <<MatlabFailure, MatlabSkipped, MatlabError>>] >>

\* the loop "for sk, parser in parsers.items()": the classes of the first
\* rule that matches, <<>> when the loop falls through to the raise
FindParser(url) ==
    LET table == parsers(url)
        hits == {k \in DOMAIN table : table[k].match}
    IN  IF hits = {} THEN <<>>
        ELSE table[CHOOSE k \in hits : \A m \in hits : k <= m].parser

(***************************************************************************)
(* Parser.initialize up to the loader: identity and file metadata          *)
(***************************************************************************)
\* a variant of the multilevel test that is content with one '/job/'
MultilevelOnce(url) == Len(Split(urlparse(url).path, <<"/","j","o","b","/">>)) > 1

\* len(url_.path.split('/job/')) > 2
Multilevel(url) == Len(Split(urlparse(url).path, <<"/","j","o","b","/">>)) > 2

\* url_.scheme + '://' + url_.netloc + '/' + url_.path.split('/')[1]
ServerOf(u, segs) ==
    IF Len(segs) < 2 THEN [err |-> IndexError, server |-> <<>>]
    ELSE [err |-> NoError,
          server |-> u.scheme \o <<":","/","/">> \o u.netloc \o <<"/">> \o segs[2]]

Server(url) == ServerOf(urlparse(url), Split(urlparse(url).path, <<"/">>))

\* a variant of the job fields that reads the Python indices 3, 5 and 6 as
\* positions counted from one
JobInfoOfByPosition(segs) ==
    IF Len(segs) < 7 THEN [err |-> IndexError, job |-> <<>>, job_no |-> <<>>]
    ELSE [err |-> NoError, job |-> segs[3] \o <<"/">> \o segs[5], job_no |-> segs[6]]

\* job and job_no from url.path.split('/'); Python index n is position n + 1
JobInfoOf(segs) ==
    IF Len(segs) < 7 THEN [err |-> IndexError, job |-> <<>>, job_no |-> <<>>]
    ELSE [err |-> NoError, job |-> segs[4] \o <<"/">> \o segs[6], job_no |-> segs[7]]

\* Parser.get_job_info
get_job_info(url, multilevel) ==
    IF ~multilevel THEN [err |-> UnsupportedURLShape, job |-> <<>>, job_no |-> <<>>]
    ELSE JobInfoOf(Split(urlparse(url).path, <<"/">>))

\* the last element of a list: x[-1]
Last(segs) == segs[Len(segs)]

\* url.path.split('/')[-1]
FileName(url) == Last(Split(urlparse(url).path, <<"/">>))

NoFileInfo(e) ==
    [err |-> e, file_name |-> <<>>, file_info |-> <<>>, target_board |-> <<>>,
     artifact_info_type |-> <<>>]

\* Parser.get_file_info from file_name and file_info = file_name.split('_')
ParserFileInfo(file_name, file_info) ==
    IF Len(file_info) < 3 THEN NoFileInfo(IndexError)
    ELSE [err |-> NoError, file_name |-> file_name, file_info |-> file_info,
          target_board |-> file_info[1],
          artifact_info_type |->
              remove_suffix(file_info[2] \o <<"_">> \o file_info[3], <<".","l","o","g">>)]

\* Parser.get_file_info (EnumeratedDevs, MissingDevs)
ParserGetFileInfo(url, multilevel) ==
    IF ~multilevel THEN NoFileInfo(UnsupportedURLShape)
    ELSE ParserFileInfo(FileName(url), Split(FileName(url), <<"_">>))

\* Dmesg.get_file_info from file_name and file_info = file_name.split('_')
DmesgFileInfo(file_name, file_info) ==
    IF Len(file_info) < 2 THEN NoFileInfo(IndexError)
    ELSE [err |-> NoError, file_name |-> file_name, file_info |-> file_info,
          target_board |-> file_info[2],
          artifact_info_type |->
              remove_suffix(IF Len(file_info) = 3
                            THEN file_info[1] \o <<"_">> \o file_info[3]
                            ELSE file_info[1],
                            <<".","l","o","g">>)]

\* Dmesg.get_file_info (Dmesg, DmesgError, DmesgWarning)
DmesgGetFileInfo(url, multilevel) ==
    IF ~multilevel THEN NoFileInfo(UnsupportedURLShape)
    ELSE DmesgFileInfo(FileName(url), Split(FileName(url), <<"_">>))

\* x[1] of x = [i for i, c in enumerate(parser_type) if c.isupper()]
SecondCapital(parser_type) ==
    CHOOSE k \in 1..Len(parser_type) :
        /\ IsUpper(parser_type[k])
        /\ Cardinality({m \in 1..(k - 1) : IsUpper(parser_type[m])}) = 1

\* (parser_type[:x[1]] + '_' + parser_type[x[1]:]).lower()
KindOfClass(parser_type, at) ==
    Lower(Slice(parser_type, 1, at - 1) \o <<"_">> \o From(parser_type, at))

xmlFileInfo(file_name, file_info) ==
    [err |-> NoError, file_name |-> file_name, file_info |-> file_info,
     target_board |->
         remove_suffix(remove_suffix(ReplaceChar(file_name, "_", "-"), <<"-","r","e","p","o","r","t","s",".","x","m","l">>),
                       <<"-","H","W","T","e","s","t","R","e","s","u","l","t","s",".","x","m","l">>),
     artifact_info_type |-> file_info]

\* xmlParser.get_file_info
xmlGetFileInfo(url, multilevel, parser_type) ==
    IF ~multilevel THEN NoFileInfo(UnsupportedURLShape)
    ELSE xmlFileInfo(FileName(url), KindOfClass(parser_type, SecondCapital(parser_type)))

\* the get_file_info the class of the object resolves to
get_file_info(url, multilevel, cls) ==
    IF xmlParser(cls) THEN xmlGetFileInfo(url, multilevel, cls)
    ELSE IF IsDmesgClass(cls) THEN DmesgGetFileInfo(url, multilevel)
    ELSE ParserGetFileInfo(url, multilevel)

(***************************************************************************)
(* Parser.get_payload_parsed: the text normalizer                          *)
(***************************************************************************)
\* (\d+\.\d*)\]\s with the group starting at j: \d+ runs to the ".",
\* \d* runs to the "]", one whitespace character follows
StampAt(p, j) ==
    LET k == RunEnd(p, j, DigitChars)
        m == RunEnd(p, k + 2, DigitChars)
    IN  /\ j <= Len(p)
        /\ IsDigit(p[j])
        /\ k + 1 <= Len(p) /\ p[k + 1] = "."
        /\ m + 2 <= Len(p) /\ p[m + 1] = "]" /\ IsSpace(p[m + 2])

Min(S) == CHOOSE a \in S : \A m \in S : a <= m
Max(S) == CHOOSE a \in S : \A m \in S : a >= m

\* the groups of a match whose first group starts at j and ends before the
\* "]" at close
StampGroups(p, j, close) ==
    [found |-> TRUE, group1 |-> Slice(p, j, close - 1), group2 |-> From(p, close + 2)]

\* the match whose first group starts at j: \d+ runs to the ".", \d* to
\* the "]"
StampFrom(p, j) ==
    StampGroups(p, j, RunEnd(p, RunEnd(p, j, DigitChars) + 2, DigitChars) + 1)

\* re.search("\[.*(\d+\.\d*)\]\s(.*)", p): the leftmost "[" from which the
\* pattern can match; the greedy .* gives up as little as it must, so the
\* group starts at the last position after that "[" from which the rest
\* matches
TimestampSearch(p) ==
    LET opens == {i \in 1..Len(p) : p[i] = "[" /\ \E j \in (i + 1)..Len(p) : StampAt(p, j)}
    IN  IF opens = {} THEN [found |-> FALSE, group1 |-> <<>>, group2 |-> <<>>]
        ELSE StampFrom(p, Max({j \in (Min(opens) + 1)..Len(p) : StampAt(p, j)}))

\* one iteration of the loop: the appended element.  A pair (timestamp,
\* rest) on a match, else the whole line (re.search("(.*)", p).group(1))
Appended(p, x) ==
    IF x.found THEN [timed |-> TRUE, timestamp |-> x.group1, text |-> x.group2]
    ELSE [timed |-> FALSE, timestamp |-> <<>>, text |-> p]

ParseLine(p) == Appended(p, TimestampSearch(p))

\* a variant of the text normalizer that keeps the timestamped lines only
ParserGetPayloadParsedTimedOnly(payload_raw) ==
    LET timed == SelectSeq(payload_raw, LAMBDA p : TimestampSearch(p).found)
    IN  [k \in 1..Len(timed) |-> ParseLine(timed[k])]

RECURSIVE ParserGetPayloadParsed(_)
ParserGetPayloadParsed(payload_raw) ==
    IF payload_raw = <<>> THEN <<>>
    ELSE <<ParseLine(Head(payload_raw))>> \o ParserGetPayloadParsed(Tail(payload_raw))

(***************************************************************************)
(* xmlParser.get_payload_parsed: the test-case name normalizer             *)
(***************************************************************************)
\* re.sub("-adi\.\w*", "", s)
RECURSIVE SubAdi(_)
SubAdi(s) ==
    IF s = <<>> THEN <<>>
    ELSE IF HasAt(s, 1, <<"-","a","d","i",".">>) THEN SubAdi(From(s, RunEnd(s, 6, WordChars) + 1))
    ELSE <<Head(s)>> \o SubAdi(Tail(s))

\* re.sub("-+", "-", s)
CollapseDashes(s) ==
    LET keep == {k \in 1..Len(s) : ~(s[k] = "-" /\ k > 1 /\ s[k - 1] = "-")}
    IN  SelectSeq([k \in 1..Len(s) |-> <<k, s[k]>>], LAMBDA e : e[1] \in keep)

Chars(pairs) == [k \in 1..Len(pairs) |-> pairs[k][2]]

\* .replace("(","[").replace(")","]")
Brackets(s) == ReplaceChar(ReplaceChar(s, "(", "["), ")", "]")

\* a match of (\w*\..*)] can start at p: the word run from p is followed
\* by "." and a "]" comes later
ProfileStart(s, p) ==
    /\ RunEnd(s, p, WordChars) + 1 <= Len(s)
    /\ s[RunEnd(s, p, WordChars) + 1] = "."
    /\ \E c \in (RunEnd(s, p, WordChars) + 2)..Len(s) : s[c] = "]"

\* the group of the match starting at p: .* is greedy, so it ends before
\* the last "]"
ProfileGroup(s, p) ==
    [found |-> TRUE, group |-> Slice(s, p, Max({c \in p..Len(s) : s[c] = "]"}) - 1)]

\* re.findall("(\w*\..*)]", s): the first match, found = FALSE standing for
\* the empty list that makes [0] raise IndexError
ProfileFile(s) ==
    LET starts == {p \in 1..Len(s) : ProfileStart(s, p)}
    IN  IF starts = {} THEN [found |-> FALSE, group |-> <<>>]
        ELSE ProfileGroup(s, Min(starts))

NA == <<"N","A">>

\* any(x in procedure[k] for x in ["profile_write", "write_profile"])
IsProfile(procedure) ==
    Contains(procedure, <<"p","r","o","f","i","l","e","_","w","r","i","t","e">>) \/ Contains(procedure, <<"w","r","i","t","e","_","p","r","o","f","i","l","e">>)

\* param[k] = re.findall(...)[0]
ProfileParam(procedure, file) ==
    IF file.found THEN [err |-> NoError, procedure |-> procedure, param |-> file.group]
    ELSE [err |-> IndexError, procedure |-> procedure, param |-> <<>>]

\* procedure[k] and param[k] from procedure_param = payload_str.split("[")
ProcedureParam(procedure_param) ==
    IF Len(procedure_param) # 2
    THEN [err |-> NoError, procedure |-> procedure_param[1], param |-> NA]
    ELSE IF IsProfile(procedure_param[1])
    THEN ProfileParam(procedure_param[1], ProfileFile(procedure_param[2]))
    ELSE [err |-> NoError, procedure |-> procedure_param[1],
          param |-> Slice(procedure_param[2], 1, Len(procedure_param[2]) - 1)]

\* str.split(sep, 1): at most one cut
SplitOnce(s, sep) ==
    IF Find(s, sep, 1) = 0 THEN <<s>>
    ELSE <<Slice(s, 1, Find(s, sep, 1) - 1), From(s, Find(s, sep, 1) + Len(sep))>>

\* a variant of the name normalizer that splits on the first "[" only
NormalizeNameFirstBracket(payload_str) ==
    ProcedureParam(SplitOnce(Brackets(Chars(CollapseDashes(SubAdi(payload_str)))), <<"[">>))

\* one iteration of the loop over payload_raw
NormalizeName(payload_str) ==
    ProcedureParam(Split(Brackets(Chars(CollapseDashes(SubAdi(payload_str)))), <<"[">>))

\* the loop: (payload, payload_param), or the IndexError of findall(...)[0]
RECURSIVE xmlGetPayloadParsed(_)
\* one: procedure[k] and param[k]; rest: the later iterations
Iterate(one, rest) ==
    IF one.err # NoError THEN [err |-> one.err, payload |-> <<>>, payload_param |-> <<>>]
    ELSE IF rest.err # NoError THEN rest
    ELSE [err |-> NoError,
          payload |-> <<one.procedure>> \o rest.payload,
          payload_param |-> <<one.param>> \o rest.payload_param]

xmlGetPayloadParsed(payload_raw) ==
    IF payload_raw = <<>> THEN [err |-> NoError, payload |-> <<>>, payload_param |-> <<>>]
    ELSE Iterate(NormalizeName(Head(payload_raw)), xmlGetPayloadParsed(Tail(payload_raw)))

(***************************************************************************)
(* Inputs: the URL handed to get_parser and what the server holds for it   *)
(***************************************************************************)
MaxLines == 2
MaxCases == 2

\* scheme, host and directory part of the URLs tried
Prefixes ==
    { <<"h","t","t","p",":","/","/","c","i","/","j","e","n","k","i","n","s","/","j","o","b","/","A","/","j","o","b","/","B","/","1","2","3","/","a","r","t","i","f","a","c","t","/">>,
      <<"h","t","t","p",":","/","/","c","i","/","j","o","b","/","A","/","j","o","b","/","B","/","j","o","b","/","1","2","3","/","a","r","t","i","f","a","c","t","/">>,
      <<"h","t","t","p",":","/","/","c","i","/","j","e","n","k","i","n","s","/","j","o","b","/","A","/","j","o","b","/","B","/","j","o","b","/","1","2","3","/","a","r","t","i","f","a","c","t","/">>,
      <<"h","t","t","p",":","/","/","c","i","/","j","e","n","k","i","n","s","/","j","o","b","/","A","/","1","2","3","/","a","r","t","i","f","a","c","t","/">>,
      <<"h","t","t","p",":","/","/","c","i","/">>,
      <<"h","t","t","p",":","/","/","c","i","?","f","=">> }

FileNames ==
    { <<"d","m","e","s","g","_","z","y","n","q",".","l","o","g">>, <<"d","m","e","s","g","_","z","y","n","q","_","e","r","r",".","l","o","g">>, <<"d","m","e","s","g","_","z","y","n","q","_","w","a","r","n",".","l","o","g">>,
      <<"d","m","e","s","g","_","z","y","n","q","-","e","r","r",".","l","o","g">>, <<"d","m","e","s","g","_","z","y","n","q","-","w","a","r","n",".","l","o","g">>,
      <<"z","e","d","_","e","n","u","m","e","r","a","t","e","d","_","d","e","v","s",".","l","o","g">>, <<"z","e","d","_","m","i","s","s","i","n","g","_","d","e","v","s",".","l","o","g">>, <<"e","n","u","m","e","r","a","t","e","d","_","d","e","v","s",".","l","o","g">>,
      <<"p","y","a","d","i","-","i","i","o","_","z","e","d","_","r","e","p","o","r","t","s",".","x","m","l">>, <<"z","e","d","_","H","W","T","e","s","t","R","e","s","u","l","t","s",".","x","m","l">>, <<"b","o","o","t",".","l","o","g">> }

Urls == {p \o f : p \in Prefixes, f \in FileNames}

\* lines of a log file as readlines() returns them, newline left out
RawLines ==
    { <<"["," "," "," ","1","2",".","3","4","5","]"," ","s","o","m","e"," ","d","e","v","i","c","e"," ","p","r","o","b","e"," ","f","a","i","l","e","d">>,
      <<" "," ","n","o"," ","t","i","m","e","s","t","a","m","p"," ","h","e","r","e"," ">>,
      <<"[","5",".","0","]"," ","e","t","h","0"," ","u","p">> }

\* junitparser result classes
Failure == <<"F","a","i","l","u","r","e">>
Skipped == <<"S","k","i","p","p","e","d">>
Error == <<"E","r","r","o","r">>

\* a test case: its name and its result entries in document order
Case(name, result) == [name |-> name, result |-> result]

TestCases ==
    { Case(<<"r","e","a","d","-","w","r","i","t","e","-","a","d","i",".","a","d","9","3","6","1","(","p","r","o","f","i","l","e","_","w","r","i","t","e","(","p","a","t","h","/","t","o","/","f","i","l","e",".","p","r","o","f","i","l","e",")",")">>, <<Failure>>),
      Case(<<"s","p","i","-","l","o","o","p","b","a","c","k","(","1","0","0","0","0","0","0",")">>, <<Skipped>>),
      Case(<<"t","e","s","t","_","p","r","o","f","i","l","e","_","w","r","i","t","e","-","a","d","i",".","a","d","9","3","6","1","(","p","a","t","h","/","t","o","/","f","i","l","e",".","p","r","o","f","i","l","e",")">>, <<Failure, Error>>),
      Case(<<"t","e","s","t","_","w","r","i","t","e","_","p","r","o","f","i","l","e","[","n","o","f","i","l","e","]">>, <<Error>>),
      Case(<<"t","e","s","t","-","-","a","t","t","r","-","a","d","i",".","a","d","9","3","6","1">>, <<>>) }

SeqsUpTo(S, n) == UNION {[1..k -> S] : k \in 0..n}

\* what a file holds: text lines, or a JUnit document (suites of cases)
TextFile(lines) == [kind |-> "text", lines |-> lines, suites |-> <<>>]
XmlFile(suites) == [kind |-> "xml", lines |-> <<>>, suites |-> suites]
EmptyFile == TextFile(<<>>)

TextFiles == {TextFile(ls) : ls \in SeqsUpTo(RawLines, MaxLines)}
XmlFiles == {XmlFile(<<cs>>) : cs \in SeqsUpTo(TestCases, MaxCases)}

\* resp of retry_session().get(url): resp.ok and the body
NotFound == [ok |-> FALSE, body |-> EmptyFile]
Served(body) == [ok |-> TRUE, body |-> body]

\* a .xml URL serves a JUnit document or something that is none; a .log
\* URL serves text
Remotes(u) ==
    IF EndsWith(u, <<".","x","m","l">>)
    THEN {NotFound, Served(TextFile(<<<<"<","t","e","s","t","s","u","i","t","e","s">>>>))} \cup {Served(b) : b \in XmlFiles}
    ELSE {NotFound} \cup {Served(b) : b \in TextFiles}

(***************************************************************************)
(* State                                                                   *)
(***************************************************************************)
VARIABLES
    url,        \* the argument of get_parser
    remote,     \* what the server answers for url
    parallel,   \* whether the objects of one URL are constructed concurrently
    gp,         \* get_parser: "call", "constructing", "returned", "raised"
    gperr,      \* the exception that left get_parser
    classes,    \* the classes of the matching rule, in list order
    pc,         \* per object: where its __init__ stands
    obj,        \* per object: its attributes
    frame,      \* per object: the locals of get_payload_raw
    dirExists,  \* os.path.exists(FILE_DIR)
    disk,       \* the files under FILE_DIR: entries [path, inode]
    inodes,     \* inode -> content
    fetches     \* number of requests grabber has sent

vars == <<url, remote, parallel, gp, gperr, classes, pc, obj, frame,
          dirExists, disk, inodes, fetches>>

FILE_DIR == <<"e","v","e","n","t","_","h","o","r","i","z","o","n">>

\* the longest list of the rule table has three classes
Inst == 1..3

\* Parser.__init__ before initialize()
NewObject ==
    [multilevel |-> FALSE, server |-> <<>>, job |-> <<>>, job_no |-> <<>>,
     file_name |-> <<>>, file_info |-> <<>>, target_board |-> <<>>,
     artifact_info_type |-> <<>>, payload_raw |-> <<>>, payload |-> <<>>,
     payload_param |-> <<>>, err |-> NoError, raised_in |-> ""]

NewFrame == [payload |-> <<>>, resp |-> EmptyFile, handle |-> 0, caught |-> FALSE]

InitInputs ==
    /\ url \in Urls
    /\ remote \in Remotes(url)
    /\ gp = "call"
    /\ gperr = NoError
    /\ classes = <<>>
    /\ pc = [i \in Inst |-> "new"]
    /\ obj = [i \in Inst |-> NewObject]
    /\ frame = [i \in Inst |-> NewFrame]
    /\ dirExists \in BOOLEAN
    /\ disk = {}
    /\ inodes = <<>>
    /\ fetches = 0

Init == InitInputs /\ parallel = FALSE

(***************************************************************************)
(* The file system under FILE_DIR                                          *)
(***************************************************************************)
\* os.path.join(FILE_DIR, self.file_name)
FilePath(i) == FILE_DIR \o <<"/">> \o obj[i].file_name

Exists(d, path) == \E e \in d : e.path = path
InodeOf(d, path) == (CHOOSE e \in d : e.path = path).inode

\* os.remove(path) on an existing path
Unlink(d, path) == {e \in d : e.path # path}

(***************************************************************************)
(* Reading the staged file                                                 *)
(***************************************************************************)
\* [l.strip() for l in f.readlines()]
ReadLines(content) == [k \in 1..Len(content.lines) |-> Strip(content.lines[k])]

\* getattr(junitparser, self.file_info.split("_")[1].capitalize())
ResultType(file_info) == Capitalize(Split(file_info, <<"_">>)[2])

\* if case.result and type(case.result[0]) is resultType
CaseSelected(case, resultType) ==
    case.result # <<>> /\ case.result[1] = resultType

\* for case in suite: ... payload.append(case.name)
RECURSIVE SuiteNames(_, _)
SuiteNames(suite, resultType) ==
    IF suite = <<>> THEN <<>>
    ELSE (IF CaseSelected(Head(suite), resultType) THEN <<Head(suite).name>> ELSE <<>>)
         \o SuiteNames(Tail(suite), resultType)

\* for suite in xml: ...
RECURSIVE XmlNames(_, _)
XmlNames(suites, resultType) ==
    IF suites = <<>> THEN <<>>
    ELSE SuiteNames(Head(suites), resultType) \o XmlNames(Tail(suites), resultType)

\* the body of the try block after grabber: the payload, or the exception
\* (JUnitXml.fromfile raises on a file that is no XML document)
ReadStaged(cls, file_info, content) ==
    IF ~xmlParser(cls) THEN [err |-> FALSE, payload |-> ReadLines(content)]
    ELSE IF content.kind # "xml" THEN [err |-> TRUE, payload |-> <<>>]
    ELSE [err |-> FALSE, payload |-> XmlNames(content.suites, ResultType(file_info))]

(***************************************************************************)
(* get_parser                                                              *)
(***************************************************************************)
GetParser ==
    /\ gp = "call"
    /\ \E parser \in {FindParser(url)} :
          /\ classes' = parser
          /\ IF parser = <<>>
             THEN gp' = "raised" /\ gperr' = UnknownArtifactKind
             ELSE gp' = "constructing" /\ gperr' = gperr
    /\ UNCHANGED <<url, remote, parallel, pc, obj, frame, dirExists, disk, inodes, fetches>>

\* p(url) for p in parser: one after the other, unless the caller runs them
\* concurrently
Sched(i) ==
    /\ gp = "constructing"
    /\ i \in 1..Len(classes)
    /\ parallel \/ \A j \in 1..(i - 1) : pc[j] = "done"

\* an exception leaves __init__ of object i; constructed one after the
\* other, it leaves get_parser as well
Raise(i, e, where) ==
    /\ pc' = [pc EXCEPT ![i] = "raised"]
    /\ obj' = [obj EXCEPT ![i].err = e, ![i].raised_in = where]
    /\ gp' = IF parallel THEN gp ELSE "raised"
    /\ gperr' = IF parallel THEN gperr ELSE e

\* Parser.initialize, lines 92-104: server, then get_job_info, then
\* get_file_info; the first that raises ends it
Initialize(i) ==
    /\ Sched(i)
    /\ pc[i] = "new"
    /\ \E multilevel \in {Multilevel(url)} :
       \E srv \in {Server(url)} :
       \E ji \in {get_job_info(url, multilevel)} :
       \E fi \in {get_file_info(url, multilevel, classes[i])} :
          IF srv.err # NoError THEN Raise(i, srv.err, "initialize")
          ELSE IF ji.err # NoError THEN Raise(i, ji.err, "initialize")
          ELSE IF fi.err # NoError THEN Raise(i, fi.err, "initialize")
          ELSE /\ obj' = [obj EXCEPT ![i] =
                      [@ EXCEPT !.multilevel = multilevel, !.server = srv.server,
                                !.job = ji.job, !.job_no = ji.job_no,
                                !.file_name = fi.file_name, !.file_info = fi.file_info,
                                !.target_board = fi.target_board,
                                !.artifact_info_type = fi.artifact_info_type]]
               /\ pc' = [pc EXCEPT ![i] = "exists"]
               /\ UNCHANGED <<gp, gperr>>
    /\ UNCHANGED <<url, remote, parallel, classes, frame, dirExists, disk, inodes, fetches>>

(***************************************************************************)
(* get_payload_raw, statement by statement                                 *)
(***************************************************************************)
LoaderPcs == {"exists", "mkdir", "get", "open", "write", "read", "remove"}

\* a variant of the handler without the finally block: the exception is
\* swallowed and the loader returns at once
ExceptNoFinally(i) ==
    /\ frame' = [frame EXCEPT ![i].caught = TRUE]
    /\ pc' = [pc EXCEPT ![i] = "parse"]

\* except Exception: ... finally: the exception is swallowed, payload
\* stays [], control goes on to os.remove
Except(i) ==
    /\ frame' = [frame EXCEPT ![i].caught = TRUE]
    /\ pc' = [pc EXCEPT ![i] = "remove"]

\* if not os.path.exists(FILE_DIR)
ExistsCheck(i) ==
    /\ Sched(i)
    /\ pc[i] = "exists"
    /\ pc' = [pc EXCEPT ![i] = IF dirExists THEN "get" ELSE "mkdir"]
    /\ UNCHANGED <<url, remote, parallel, gp, gperr, classes, obj, frame,
                   dirExists, disk, inodes, fetches>>

\* os.mkdir(FILE_DIR): FileExistsError if it has appeared since the test
Mkdir(i) ==
    /\ Sched(i)
    /\ pc[i] = "mkdir"
    /\ IF dirExists
       THEN Except(i) /\ UNCHANGED dirExists
       ELSE /\ dirExists' = TRUE
            /\ pc' = [pc EXCEPT ![i] = "get"]
            /\ UNCHANGED frame
    /\ UNCHANGED <<url, remote, parallel, gp, gperr, classes, obj, disk, inodes, fetches>>

\* grabber: resp = retry_session().get(url, stream=True); raise if not resp.ok
GrabberGet(i) ==
    /\ Sched(i)
    /\ pc[i] = "get"
    /\ fetches' = fetches + 1
    /\ IF remote.ok
       THEN /\ frame' = [frame EXCEPT ![i].resp = remote.body]
            /\ pc' = [pc EXCEPT ![i] = "open"]
       ELSE Except(i)
    /\ UNCHANGED <<url, remote, parallel, gp, gperr, classes, obj, dirExists, disk, inodes>>

\* grabber: open(fname, "wb") creates the file or truncates the one there
GrabberOpen(i) ==
    /\ Sched(i)
    /\ pc[i] = "open"
    /\ IF Exists(disk, FilePath(i))
       THEN /\ inodes' = [inodes EXCEPT ![InodeOf(disk, FilePath(i))] = EmptyFile]
            /\ frame' = [frame EXCEPT ![i].handle = InodeOf(disk, FilePath(i))]
            /\ UNCHANGED disk
       ELSE /\ inodes' = Append(inodes, EmptyFile)
            /\ disk' = disk \cup {[path |-> FilePath(i), inode |-> Len(inodes) + 1]}
            /\ frame' = [frame EXCEPT ![i].handle = Len(inodes) + 1]
    /\ pc' = [pc EXCEPT ![i] = "write"]
    /\ UNCHANGED <<url, remote, parallel, gp, gperr, classes, obj, dirExists, fetches>>

\* grabber: the iter_content loop writes the body through the open handle
\* (the bodies tried fit one chunk) and the with block closes it
GrabberWrite(i) ==
    /\ Sched(i)
    /\ pc[i] = "write"
    /\ inodes' = [inodes EXCEPT ![frame[i].handle] = frame[i].resp]
    /\ pc' = [pc EXCEPT ![i] = "read"]
    /\ UNCHANGED <<url, remote, parallel, gp, gperr, classes, obj, frame,
                   dirExists, disk, fetches>>

\* the rest of the try block: open the staged file by its path and read it
ReadFile(i) ==
    /\ Sched(i)
    /\ pc[i] = "read"
    /\ IF ~Exists(disk, FilePath(i))
       THEN Except(i)
       ELSE \E got \in {ReadStaged(classes[i], obj[i].file_info,
                                    inodes[InodeOf(disk, FilePath(i))])} :
                IF got.err THEN Except(i)
                ELSE /\ frame' = [frame EXCEPT ![i].payload = got.payload]
                     /\ pc' = [pc EXCEPT ![i] = "remove"]
    /\ UNCHANGED <<url, remote, parallel, gp, gperr, classes, obj,
                   dirExists, disk, inodes, fetches>>

\* finally: os.remove(file_path), then return payload; FileNotFoundError
\* leaves the finally block when there is no such file
Remove(i) ==
    /\ Sched(i)
    /\ pc[i] = "remove"
    /\ IF Exists(disk, FilePath(i))
       THEN /\ disk' = Unlink(disk, FilePath(i))
            /\ obj' = [obj EXCEPT ![i].payload_raw = frame[i].payload]
            /\ pc' = [pc EXCEPT ![i] = "parse"]
            /\ UNCHANGED <<gp, gperr>>
       ELSE Raise(i, FileNotFoundError, "get_payload_raw") /\ UNCHANGED disk
    /\ UNCHANGED <<url, remote, parallel, classes, frame, dirExists, inodes, fetches>>

(***************************************************************************)
(* initialize, lines 106-113                                               *)
(***************************************************************************)
\* for k in range(len(payload_parsed)): self.payload_param.append("NA")
RECURSIVE AppendNA(_, _)
AppendNA(payload_param, n) ==
    IF n = 0 THEN payload_param ELSE AppendNA(Append(payload_param, NA), n - 1)

GetPayloadParsed(i) ==
    /\ Sched(i)
    /\ pc[i] = "parse"
    /\ IF xmlParser(classes[i])
       THEN \E payload_parsed \in {xmlGetPayloadParsed(obj[i].payload_raw)} :
                IF payload_parsed.err # NoError
                THEN Raise(i, payload_parsed.err, "get_payload_parsed")
                ELSE /\ obj' = [obj EXCEPT ![i].payload = payload_parsed.payload,
                                           ![i].payload_param = payload_parsed.payload_param]
                     /\ pc' = [pc EXCEPT ![i] = "done"]
                     /\ UNCHANGED <<gp, gperr>>
       ELSE \E payload_parsed \in {ParserGetPayloadParsed(obj[i].payload_raw)} :
                /\ obj' = [obj EXCEPT ![i].payload = payload_parsed,
                                      ![i].payload_param =
                                          AppendNA(obj[i].payload_param, Len(payload_parsed))]
                /\ pc' = [pc EXCEPT ![i] = "done"]
                /\ UNCHANGED <<gp, gperr>>
    /\ UNCHANGED <<url, remote, parallel, classes, frame, dirExists, disk, inodes, fetches>>

\* return parser(url) / return [p(url) for p in parser]
Return ==
    /\ gp = "constructing"
    /\ \A i \in 1..Len(classes) : pc[i] = "done"
    /\ gp' = "returned"
    /\ UNCHANGED <<url, remote, parallel, gperr, classes, pc, obj, frame,
                   dirExists, disk, inodes, fetches>>

Next ==
    \/ GetParser
    \/ \E i \in Inst : Initialize(i)
    \/ \E i \in Inst : ExistsCheck(i)
    \/ \E i \in Inst : Mkdir(i)
    \/ \E i \in Inst : GrabberGet(i)
    \/ \E i \in Inst : GrabberOpen(i)
    \/ \E i \in Inst : GrabberWrite(i)
    \/ \E i \in Inst : ReadFile(i)
    \/ \E i \in Inst : Remove(i)
    \/ \E i \in Inst : GetPayloadParsed(i)
    \/ Return

Spec == Init /\ [][Next]_vars

\* the objects of one URL constructed by concurrent callers, on a few of
\* the inputs
ConcUrls ==
    { <<"h","t","t","p",":","/","/","c","i","/","j","e","n","k","i","n","s","/","j","o","b","/","A","/","j","o","b","/","B","/","1","2","3","/","a","r","t","i","f","a","c","t","/","p","y","a","d","i","-","i","i","o","_","z","e","d","_","r","e","p","o","r","t","s",".","x","m","l">>,
      <<"h","t","t","p",":","/","/","c","i","/","j","e","n","k","i","n","s","/","j","o","b","/","A","/","j","o","b","/","B","/","1","2","3","/","a","r","t","i","f","a","c","t","/","z","e","d","_","H","W","T","e","s","t","R","e","s","u","l","t","s",".","x","m","l">>,
      <<"h","t","t","p",":","/","/","c","i","/","j","e","n","k","i","n","s","/","j","o","b","/","A","/","j","o","b","/","B","/","1","2","3","/","a","r","t","i","f","a","c","t","/","d","m","e","s","g","_","z","y","n","q",".","l","o","g">>,
      <<"h","t","t","p",":","/","/","c","i","/","p","y","a","d","i","-","i","i","o","_","z","e","d","_","r","e","p","o","r","t","s",".","x","m","l">> }

ConcRemotes(u) ==
    {r \in Remotes(u) : r.ok => Len(r.body.lines) + Len(r.body.suites) = 1
                                 /\ \A k \in DOMAIN r.body.suites : Len(r.body.suites[k]) = 1}

InitConc ==
    /\ InitInputs
    /\ url \in ConcUrls
    /\ remote \in ConcRemotes(url)
    /\ parallel = TRUE
SpecConc == InitConc /\ [][Next]_vars

(***************************************************************************)
(* Properties                                                              *)
(***************************************************************************)
\* the objects whose __init__ has been entered
Objects == {i \in Inst : i <= Len(classes)}
\* the objects whose __init__ has completed
Constructed == {i \in Objects : pc[i] = "done"}
\* the objects whose get_payload_raw has returned or raised
Loaded(i) == pc[i] \in {"parse", "done"} \/ obj[i].raised_in \in {"get_payload_raw", "get_payload_parsed"}

\* the path of url contains '/job/' at least twice
TwoJobGroupsIn(path) ==
    \E a \in 1..Len(path) :
        /\ HasAt(path, a, <<"/","j","o","b","/">>)
        /\ \E b \in (a + 5)..Len(path) : HasAt(path, b, <<"/","j","o","b","/">>)

TwoJobGroups(u) == TwoJobGroupsIn(urlparse(u).path)

\* C1: no exception propagates out of get_payload_raw, whatever fails while
\* staging or reading; on a failure the construction completes with an
\* empty payload
C1_LoaderSwallowsFailures ==
    \A i \in Objects :
        /\ obj[i].raised_in # "get_payload_raw"
        /\ (pc[i] = "done" /\ frame[i].caught) => obj[i].payload = <<>>

ErrorOfShape(u) ==
    IF FindParser(u) = <<>> THEN UnknownArtifactKind
    ELSE IF ~Contains(urlparse(u).path, <<"/">>) THEN IndexError
    ELSE UnsupportedURLShape

C3_StagedFileRemoved ==
    [][\A i \in Inst :
          (pc[i] \in LoaderPcs /\ pc'[i] \notin LoaderPcs) => ~Exists(disk', FilePath(i))]_vars

\* the staged content failed to parse, and the loader has returned
C3_Witness ==
    \E i \in Objects :
        /\ pc[i] = "parse"
        /\ remote.ok
        /\ frame[i].caught
        /\ frame[i].handle # 0
        /\ ~Exists(disk, FilePath(i))

\* the path .../job/A/job/B/job/123/.../dmesg_zynq_err.log of the claim
ClaimedShapeIn(path) ==
    /\ Contains(path, <<"/","j","o","b","/","A","/","j","o","b","/","B","/","j","o","b","/","1","2","3","/">>)
    /\ EndsWith(path, <<"/","d","m","e","s","g","_","z","y","n","q","_","e","r","r",".","l","o","g">>)

ClaimedShape(u) == ClaimedShapeIn(urlparse(u).path)

\* the path /<root>/job/A/job/B/123/.../dmesg_zynq_err.log
JenkinsShapeIn(path) ==
    /\ \E k \in 2..Len(path) :
          /\ HasAt(path, k, <<"/","j","o","b","/","A","/","j","o","b","/","B","/","1","2","3","/">>)
          /\ path[1] = "/"
          /\ \A m \in 2..(k - 1) : path[m] # "/"
    /\ EndsWith(path, <<"/","d","m","e","s","g","_","z","y","n","q","_","e","r","r",".","l","o","g">>)

JenkinsShape(u) == JenkinsShapeIn(urlparse(u).path)

IsDmesgErrorOf(i, job, job_no, target_board) ==
    /\ classes = <<DmesgError>>
    /\ obj[i].raised_in # "initialize"
    /\ obj[i].job = job
    /\ obj[i].job_no = job_no
    /\ obj[i].target_board = target_board

\* C4 as claimed: the URL .../job/A/job/B/job/123/.../dmesg_zynq_err.log
\* gives a DmesgError object with job "A/B", job number "123" and target
\* board "zynq"
C4_ClaimedJobInfo ==
    (ClaimedShape(url) /\ pc[1] # "new") =>
        IsDmesgErrorOf(1, <<"A","/","B">>, <<"1","2","3">>, <<"z","y","n","q">>)

\* C4 as amended: the URL /<root>/job/A/job/B/123/.../dmesg_zynq_err.log,
\* whose segments 3, 5 and 6 (segment 0 being the empty one before the
\* leading slash) are A, B and 123, gives a DmesgError object with job
\* "A/B", job number "123" and target board "zynq"
C4_PositionalJobInfo ==
    (JenkinsShape(url) /\ pc[1] # "new") =>
        IsDmesgErrorOf(1, <<"A","/","B">>, <<"1","2","3">>, <<"z","y","n","q">>)

C4_Witness ==
    /\ JenkinsShape(url)
    /\ pc[1] = "done"
    /\ obj[1].job = <<"A","/","B">>
    /\ obj[1].artifact_info_type = <<"d","m","e","s","g","_","e","r","r">>

ProbeLine == <<"["," "," "," ","1","2",".","3","4","5","]"," ","s","o","m","e"," ","d","e","v","i","c","e"," ","p","r","o","b","e"," ","f","a","i","l","e","d">>

\* C5: the text normalizer turns "[   12.345] some device probe failed"
\* into the pair ("12.345", "some device probe failed"), and a line with no
\* bracketed number into the whole line
C5_CompleteTimestamp ==
    \A i \in Constructed : ~xmlParser(classes[i]) =>
        \A k \in DOMAIN obj[i].payload_raw :
            /\ obj[i].payload_raw[k] = ProbeLine =>
                  obj[i].payload[k] = [timed |-> TRUE, timestamp |-> <<"1","2",".","3","4","5">>,
                                       text |-> <<"s","o","m","e"," ","d","e","v","i","c","e"," ","p","r","o","b","e"," ","f","a","i","l","e","d">>]
            /\ obj[i].payload_raw[k] = <<"n","o"," ","t","i","m","e","s","t","a","m","p"," ","h","e","r","e">> =>
                  obj[i].payload[k] = [timed |-> FALSE, timestamp |-> <<>>,
                                       text |-> <<"n","o"," ","t","i","m","e","s","t","a","m","p"," ","h","e","r","e">>]

NestedName == <<"r","e","a","d","-","w","r","i","t","e","-","a","d","i",".","a","d","9","3","6","1","(","p","r","o","f","i","l","e","_","w","r","i","t","e","(","p","a","t","h","/","t","o","/","f","i","l","e",".","p","r","o","f","i","l","e",")",")">>
ProfileName == <<"t","e","s","t","_","p","r","o","f","i","l","e","_","w","r","i","t","e","-","a","d","i",".","a","d","9","3","6","1","(","p","a","t","h","/","t","o","/","f","i","l","e",".","p","r","o","f","i","l","e",")">>

\* object i normalizes every raw entry equal to name to (procedure, param)
NormalizesTo(i, name, procedure, param) ==
    \A k \in DOMAIN obj[i].payload_raw :
        obj[i].payload_raw[k] = name =>
            obj[i].payload[k] = procedure /\ obj[i].payload_param[k] = param

\* C6 as claimed: the XML normalizer turns
\* "read-write-adi.ad9361(profile_write(path/to/file.profile))" into
\* procedure "read-write" and parameter "file.profile"
C6_ClaimedProfileParam ==
    \A i \in Constructed : xmlParser(classes[i]) =>
        NormalizesTo(i, NestedName, <<"r","e","a","d","-","w","r","i","t","e">>, <<"f","i","l","e",".","p","r","o","f","i","l","e">>)

\* C6 as amended: the name is split on every "[", so the name with two
\* bracket groups gives procedure "read-write" and parameter "NA"; the
\* profile-write carve-out applies to a name with one bracket group whose
\* procedure part contains profile_write:
\* "test_profile_write-adi.ad9361(path/to/file.profile)" gives procedure
\* "test_profile_write" and parameter "file.profile"
C6_SplitOnEveryBracket ==
    \A i \in Constructed : xmlParser(classes[i]) =>
        /\ NormalizesTo(i, NestedName, <<"r","e","a","d","-","w","r","i","t","e">>, NA)
        /\ NormalizesTo(i, ProfileName, <<"t","e","s","t","_","p","r","o","f","i","l","e","_","w","r","i","t","e">>, <<"f","i","l","e",".","p","r","o","f","i","l","e">>)

C6_Witness ==
    \E i \in Constructed :
        /\ xmlParser(classes[i])
        /\ \E k \in DOMAIN obj[i].payload_raw : obj[i].payload_raw[k] = NestedName
        /\ \E k \in DOMAIN obj[i].payload_raw : obj[i].payload_raw[k] = ProfileName

\* C7: a URL whose file name is dmesg_...err.log is classified DmesgError,
\* one whose file name is dmesg_...warn.log DmesgWarning, never plain Dmesg
C7_SpecificRuleWins ==
    (gp # "call" /\ HasAt(FileName(url), 1, <<"d","m","e","s","g","_">>)) =>
        /\ EndsWith(FileName(url), <<"e","r","r",".","l","o","g">>) => classes = <<DmesgError>>
        /\ EndsWith(FileName(url), <<"w","a","r","n",".","l","o","g">>) => classes = <<DmesgWarning>>

\* the names of the cases of a suite that carry a result of the kind, in
\* document order
RECURSIVE NamesWithKind(_, _)
NamesWithKind(suite, kind) ==
    IF suite = <<>> THEN <<>>
    ELSE (IF \E r \in DOMAIN Head(suite).result : Head(suite).result[r] = kind
          THEN <<Head(suite).name>> ELSE <<>>) \o NamesWithKind(Tail(suite), kind)

\* the result kind of an XML class
KindOf(cls) ==
    IF cls \in {PytestFailure, MatlabFailure} THEN Failure
    ELSE IF cls \in {PytestSkipped, MatlabSkipped} THEN Skipped
    ELSE Error

\* C8: the raw payload of an XML object holds, in document order, the names
\* of exactly the test cases that carry a result entry of its kind
C8_EveryResultEntryCounts ==
    \A i \in Objects :
        (xmlParser(classes[i]) /\ Loaded(i) /\ ~frame[i].caught /\ obj[i].raised_in # "get_payload_raw") =>
            obj[i].payload_raw = NamesWithKind(remote.body.suites[1], KindOf(classes[i]))

\* C9: while an object is between writing its staged file and reading it
\* back, the file at its staging path is the one it wrote
C9_OwnStagedFile ==
    \A i \in Objects :
        pc[i] = "read" =>
            /\ Exists(disk, FilePath(i))
            /\ InodeOf(disk, FilePath(i)) = frame[i].handle
            /\ inodes[frame[i].handle] = frame[i].resp

\* C10: a constructed object has as many records and parameters as raw
\* entries, record k is the normalization of raw entry k, and a text object
\* has "NA" for every parameter
C10_RecordPerRawEntry ==
    \A i \in Constructed :
        /\ Len(obj[i].payload) = Len(obj[i].payload_raw)
        /\ Len(obj[i].payload_param) = Len(obj[i].payload_raw)
        /\ \A k \in DOMAIN obj[i].payload_raw :
              IF xmlParser(classes[i])
              THEN /\ obj[i].payload[k] = NormalizeName(obj[i].payload_raw[k]).procedure
                   /\ obj[i].payload_param[k] = NormalizeName(obj[i].payload_raw[k]).param
              ELSE /\ obj[i].payload[k] = ParseLine(obj[i].payload_raw[k])
                   /\ obj[i].payload_param[k] = NA

C10_Witness ==
    /\ \E i \in Constructed :
          /\ ~xmlParser(classes[i])
          /\ Len(obj[i].payload_raw) = MaxLines
          /\ \E k \in DOMAIN obj[i].payload : obj[i].payload[k].timed
          /\ \E k \in DOMAIN obj[i].payload : ~obj[i].payload[k].timed

====
